---- MODULE Spec2Model ----
(***************************************************************************)
(* SelectBehavior of Rapid (modules/behaviors/SelectBehavior.js): the      *)
(* pointer / keyboard gesture engine that turns raw events into clicks,    *)
(* double clicks, long presses, spacebar clicks and context-menu requests. *)
(*                                                                         *)
(* Every handler of the class is an operator from a state record to a      *)
(* state record, so that a handler that calls other handlers is their      *)
(* sequential composition; the record's `trace` field lists the calls the  *)
(* handler made, in order.  Event records are heap objects: `uid` is the   *)
(* object's identity and `cancelled` holds the uids whose isCancelled      *)
(* field is true.  Time is in milliseconds and advances by TickMs.         *)
(***************************************************************************)
EXTENDS Integers, Sequences, FiniteSets, TLC

VARIABLES
    enabled,               \* this._enabled
    spaceClickDisabled,    \* this._spaceClickDisabled
    longPressTimeout,      \* this._longPressTimeout (0 = null, else the timer's handle)
    showsMenu,             \* this._showsMenu
    showsMapRouletteMenu,  \* this._showsMapRouletteMenu
    lastDown, lastUp, lastMove, lastSpace, lastClick,   \* the five eventData slots
    cancelled,             \* uids of the eventData objects whose isCancelled is true
    timers,                \* window's pending setTimeout callbacks
    now,                   \* wall clock, ms
    nextUid,               \* identity of the next eventData object
    mode, selectedIDs,     \* context.mode.id and context.selectedIDs()
    editMenuOpen,          \* ui: the edit menu is shown
    mapRouletteMenuOpen,   \* ui: the MapRoulette menu is shown
    doubleClickEnabled,    \* context.behaviors.mapInteraction.doubleClickEnabled
    dragged,               \* history: downs that saw a same-pointer move >= NEAR_TOLERANCE
    pressed,               \* history: downs accepted as a long press
    keyed                  \* history: downs whose pending long press saw a keydown

vars == << enabled, spaceClickDisabled, longPressTimeout, showsMenu,
           showsMapRouletteMenu, lastDown, lastUp, lastMove, lastSpace, lastClick,
           cancelled, timers, now, nextUid, mode, selectedIDs, editMenuOpen,
           mapRouletteMenuOpen, doubleClickEnabled, dragged, pressed, keyed >>

----------------------------------------------------------------------------
(* Program constants *)

NEAR_TOLERANCE == 4
FAR_TOLERANCE == 12
DOUBLE_CLICK_WINDOW == 500
LONG_PRESS_DELAY == 750
ZOOM_PAUSE == 500

(* Bounds of the model *)

MaxTicks == 3
MaxEvents == 3
MaxKeyEvents == 2
MaxTimers == 2

\* clock granularity: half the double-click window (250 ms)
TickMs == DOUBLE_CLICK_WINDOW \div 2

----------------------------------------------------------------------------
(* Values the inputs are drawn from *)

NoTarget == [dataID |-> "", kind |-> "none", service |-> "", parent |-> ""]
Way1     == [dataID |-> "w1", kind |-> "way", service |-> "", parent |-> ""]
Node1    == [dataID |-> "n1", kind |-> "node", service |-> "", parent |-> ""]
Mid1     == [dataID |-> "m1", kind |-> "midpoint", service |-> "", parent |-> "w1"]
Task1    == [dataID |-> "q1", kind |-> "qa", service |-> "maproulette", parent |-> ""]
Note1    == [dataID |-> "q2", kind |-> "qa", service |-> "osm", parent |-> ""]
Rapid1   == [dataID |-> "r1", kind |-> "rapidway", service |-> "", parent |-> ""]
Photo1   == [dataID |-> "p1", kind |-> "photo", service |-> "", parent |-> ""]

\* the null eventData
NoEvent == [uid |-> 0, id |-> 0, screen |-> <<0, 0>>, time |-> 0, target |-> NoTarget]

\* modifierKeys and utilDetect().os === 'mac'
NoMods   == [keys |-> {}, isMac |-> FALSE]
ShiftKey == [keys |-> {"Shift"}, isMac |-> FALSE]
AltKey   == [keys |-> {"Alt"}, isMac |-> FALSE]
CtrlKey  == [keys |-> {"Control"}, isMac |-> FALSE]
CtrlMac  == [keys |-> {"Control"}, isMac |-> TRUE]

Pointers == {1, 2}
Buttons == {0, 1, 2}
Keys == {"Escape", "ContextMenu", "Space", "Other"}
Coords == {<<0, 0>>, <<3, 0>>, <<4, 0>>, <<12, 0>>, <<13, 0>>}
Targets == {NoTarget, Way1, Node1, Mid1, Task1, Note1, Rapid1, Photo1}
Modifiers == {NoMods, ShiftKey, AltKey, CtrlKey, CtrlMac}

\* pointer 1 is the mouse, any other pointer a finger
PointerType(id) == IF id = 1 THEN "mouse" ELSE "touch"

(* The inputs a specification's environment sends: which pointers, what    *)
(* the scene shows where they go, which keys, which modifiers, and how     *)
(* many eventData objects.                                                 *)

GestureInputs ==
    [pointers |-> {1, 2},
     hits     |-> {[screen |-> <<0, 0>>, target |-> Way1],
                   [screen |-> <<4, 0>>, target |-> NoTarget]},
     buttons  |-> {0, 2},
     keys     |-> {"Other"},
     mods     |-> {NoMods, ShiftKey, AltKey},
     events   |-> MaxEvents]

\* clicks, spacebar clicks and the menu key on a way, its midpoint and a node
\* next to them
SelectionInputs ==
    [pointers |-> {2},
     hits     |-> {[screen |-> <<0, 0>>, target |-> Way1],
                   [screen |-> <<3, 0>>, target |-> Node1],
                   [screen |-> <<0, 0>>, target |-> Mid1]},
     buttons  |-> {0},
     keys     |-> {"Space", "ContextMenu"},
     mods     |-> {NoMods, ShiftKey},
     events   |-> MaxKeyEvents]

\* context-menu requests on a MapRoulette task
MenuInputs ==
    [pointers |-> {1, 2},
     hits     |-> {[screen |-> <<0, 0>>, target |-> Task1],
                   [screen |-> <<13, 0>>, target |-> NoTarget]},
     buttons  |-> {0, 2},
     keys     |-> {"ContextMenu"},
     mods     |-> {NoMods},
     events   |-> MaxEvents]

\* double clicks of a finger on a way, its midpoint, a node and a Rapid way
DoubleClickInputs ==
    [pointers |-> {2},
     hits     |-> {[screen |-> <<0, 0>>, target |-> Way1],
                   [screen |-> <<0, 0>>, target |-> Mid1],
                   [screen |-> <<3, 0>>, target |-> Node1],
                   [screen |-> <<3, 0>>, target |-> Rapid1]},
     buttons  |-> {0},
     keys     |-> {"Other"},
     mods     |-> {NoMods, ShiftKey},
     events   |-> MaxEvents]

KeyboardInputs ==
    [pointers |-> {1, 2},
     hits     |-> {[screen |-> <<0, 0>>, target |-> Way1],
                   [screen |-> <<13, 0>>, target |-> NoTarget]},
     buttons  |-> {0},
     keys     |-> Keys,
     mods     |-> {NoMods},
     events   |-> MaxKeyEvents]

----------------------------------------------------------------------------
(* Pure helpers *)

\* vecLength(a, b)^2; vecLength(a, b) < d  <=>  VecLengthSq(a, b) < d*d
VecLengthSq(a, b) ==
    (a[1] - b[1]) * (a[1] - b[1]) + (a[2] - b[2]) * (a[2] - b[2])

Log(s, call) == [s EXCEPT !.trace = Append(@, call)]

Count(seq, x) == Cardinality({i \in DOMAIN seq : seq[i] = x})

IsCancelled(s, e) == e.uid \in s.cancelled

DisableSnap(m) ==
    "Alt" \in m.keys \/ "Meta" \in m.keys \/ (~m.isMac /\ "Control" \in m.keys)

IsMultiselect(m) == "Shift" \in m.keys

\* this._multiSelection: cleared in enable()/disable(), never added to
multiSelection == {}

\* _getEventData(e): a fresh eventData object for a raw event
GetEventData(s, e) ==
    [uid |-> s.nextUid, id |-> e.id, screen |-> e.screen, time |-> s.now,
     target |-> e.target]

\* context.enter(modeID, { selection })
Enter(s, modeID, ids) ==
    Log([s EXCEPT !.mode = modeID, !.selectedIDs = ids], "enter:" \o modeID)

Includes(seq, x) == \E i \in DOMAIN seq : seq[i] = x

Filter(seq, x) == SelectSeq(seq, LAMBDA y : y # x)

----------------------------------------------------------------------------
(* _cancelLongPress *)

CancelLongPress(s) ==
    IF s.longPressTimeout = 0 THEN s
    ELSE [s EXCEPT !.timers = {t \in @ : t.h # s.longPressTimeout},
                   !.longPressTimeout = 0,
                   !.showsMenu = FALSE,
                   !.showsMapRouletteMenu = FALSE]

(* _doSelect *)

\* window.setTimeout makes a new timer on every call: `n` tells the pending
\* re-enable timers apart (their handle is not kept, h = 0)
FreshTimer(s) ==
    CHOOSE n \in 0..Cardinality(s.timers) :
       /\ \A t \in s.timers : t.kind = "zoom" => t.n # n
       /\ \A k \in 0..(n - 1) : \E t \in s.timers : t.kind = "zoom" /\ t.n = k

PauseDoubleClickZoom(s) ==
    [s EXCEPT !.doubleClickEnabled = FALSE,
              !.timers = @ \cup {[h |-> 0, kind |-> "zoom", due |-> s.now + ZOOM_PAUSE,
                                  down |-> 0, stale |-> FALSE, n |-> FreshTimer(s)]}]

\* mutant: an entity already selected is not entered again
ReenterSingleIfNew(s, dataID) == ~Includes(s.selectedIDs, dataID)

\* if (!multiselect) the guard of line 376
ReenterSingle(s, dataID) ==
    ~s.showsMenu \/ Len(s.selectedIDs) <= 1 \/ ~Includes(s.selectedIDs, dataID)

\* mutant: a Shift click deselects under an open menu too
SelectOSMUnderMenu(s, dataID, m) ==
    IF ~IsMultiselect(m)
    THEN IF ReenterSingle(s, dataID)
         THEN Enter(s, "select-osm", <<dataID>>)
         ELSE s
    ELSE IF Includes(s.selectedIDs, dataID)
         THEN Enter(s, "select-osm", Filter(s.selectedIDs, dataID))
         ELSE Enter(s, "select-osm", Append(s.selectedIDs, dataID))

SelectOSM(s, dataID, m) ==
    IF ~IsMultiselect(m)
    THEN IF ReenterSingle(s, dataID)
         THEN Enter(s, "select-osm", <<dataID>>)
         ELSE s
    ELSE IF Includes(s.selectedIDs, dataID)
         THEN IF ~s.showsMenu
              THEN Enter(s, "select-osm", Filter(s.selectedIDs, dataID))
              ELSE s
         ELSE Enter(s, "select-osm", Append(s.selectedIDs, dataID))

\* mutant: a midpoint is selected under its own identifier
SelectedIDOwn(target) == target.dataID

\* line 347: the identifier a click on `target` selects
SelectedID(target) ==
    IF target.kind = "midpoint" THEN target.parent ELSE target.dataID

DoSelect(s0, m) ==
    LET s == Log(s0, "doSelect") IN
    IF ~s.enabled \/ s.lastClick.uid = 0 THEN s
    ELSE
      LET s1     == CancelLongPress(s)
          target == IF DisableSnap(m) THEN NoTarget ELSE s.lastClick.target
          s2     == IF target.kind # "none" THEN PauseDoubleClickZoom(s1) ELSE s1
          \* a midpoint is treated as its parent way
          kind   == IF target.kind = "midpoint" THEN "way" ELSE target.kind
          dataID == SelectedID(target)
      IN
      CASE kind = "none" ->
             IF s2.mode # "browse" /\ multiSelection = {} /\ ~IsMultiselect(m)
             THEN Enter(s2, "browse", <<>>)
             ELSE s2
        [] kind \in {"rapidway", "overture", "custom", "qa", "detection"} ->
             Enter(s2, "select", <<dataID>>)
        [] kind \in {"node", "way"} -> SelectOSM(s2, dataID, m)
        [] kind = "photo" -> Log(s2, "selectPhoto")
        [] OTHER -> s2

(* _doContextMenu *)

DoContextMenu(s0, m) ==
    LET s == Log(s0, "doContextMenu") IN
    IF ~s.enabled \/ s.lastClick.uid = 0 THEN s
    ELSE
      LET target == IF DisableSnap(m) THEN NoTarget ELSE s.lastClick.target IN
      IF target.kind = "qa" /\ target.service = "maproulette"
      THEN IF s.showsMapRouletteMenu
           THEN Log([s EXCEPT !.mapRouletteMenuOpen = FALSE,
                              !.showsMapRouletteMenu = FALSE], "closeMapRouletteMenu")
           ELSE Log([s EXCEPT !.mapRouletteMenuOpen = TRUE,
                              !.showsMapRouletteMenu = TRUE], "showMapRouletteMenu")
      ELSE IF s.showsMenu
           THEN Log([s EXCEPT !.editMenuOpen = FALSE, !.showsMenu = FALSE],
                    "closeEditMenu")
           ELSE Log([s EXCEPT !.showsMenu = TRUE, !.editMenuOpen = TRUE],
                    "showEditMenu")

(* _doDoubleClick *)

\* mutant: a Rapid way is edited like an OSM way
DoDoubleClickRapid(s0) ==
    LET s == Log(s0, "doDoubleClick") IN
    IF ~s.enabled \/ s.lastUp.uid = 0 THEN s
    ELSE
      LET kind == s.lastUp.target.kind IN
      IF kind = "none" THEN Log(s, "TypeError")
      ELSE IF kind \in {"way", "midpoint", "rapidway"}
           THEN Log(Log(s, "perform"), "commit")
           ELSE s

DoDoubleClick(s0) ==
    LET s == Log(s0, "doDoubleClick") IN
    IF ~s.enabled \/ s.lastUp.uid = 0 THEN s
    ELSE
      LET kind == s.lastUp.target.kind IN
      IF kind = "none" THEN Log(s, "TypeError")
      ELSE IF kind \in {"way", "midpoint"}
           THEN Log(Log(s, "perform"), "commit")
           ELSE s

----------------------------------------------------------------------------
(* enable / disable *)

Reset(s) ==
    [s EXCEPT !.spaceClickDisabled = FALSE,
              !.longPressTimeout = 0,
              !.showsMenu = FALSE,
              !.showsMapRouletteMenu = FALSE,
              !.lastDown = NoEvent,
              !.lastUp = NoEvent,
              !.lastMove = NoEvent,
              !.lastSpace = NoEvent,
              !.lastClick = NoEvent]

EnableHandler(s) ==
    IF s.enabled THEN s
    ELSE Reset([s EXCEPT !.enabled = TRUE])

\* The handle is set to null before _cancelLongPress() runs, so that call
\* returns at its first line.  `stale` marks the timers that outlive the call.
DisableHandler(s) ==
    IF ~s.enabled THEN s
    ELSE LET s1 == CancelLongPress(Reset([s EXCEPT !.enabled = FALSE]))
         IN  [s1 EXCEPT !.timers = {[t EXCEPT !.stale = TRUE] : t \in @}]

----------------------------------------------------------------------------
(* _pointerdown *)

ArmLongPress(s, down) ==
    [s EXCEPT !.longPressTimeout = down.uid,
              !.timers = @ \cup {[h |-> down.uid, kind |-> "longpress",
                                  due |-> s.now + LONG_PRESS_DELAY,
                                  down |-> down.uid, stale |-> FALSE, n |-> 0]}]

PointerDownHandler(s, e) ==
    IF s.lastDown.uid # 0 THEN s
    ELSE
      LET s1   == Log([s EXCEPT !.editMenuOpen = FALSE, !.showsMenu = FALSE],
                      "closeEditMenu")
          s2   == Log([s1 EXCEPT !.mapRouletteMenuOpen = FALSE,
                                 !.showsMapRouletteMenu = FALSE],
                      "closeMapRouletteMenu")
          down == GetEventData(s2, e)
          s3   == [s2 EXCEPT !.lastDown = down, !.lastClick = NoEvent,
                             !.nextUid = @ + 1]
          s4   == CancelLongPress(s3)
      IN  IF e.pointerType = "touch" THEN ArmLongPress(s4, down) ELSE s4

----------------------------------------------------------------------------
(* _pointermove *)

\* mutant: the near tolerance where the far one is meant
MovedFarNear(move, space) ==
    VecLengthSq(move.screen, space.screen) > NEAR_TOLERANCE * NEAR_TOLERANCE

\* pointer moved far enough from the spacebar click (line 210)
MovedFar(move, space) ==
    VecLengthSq(move.screen, space.screen) > FAR_TOLERANCE * FAR_TOLERANCE

\* mutant: > where >= is meant
IsDragStrict(down, move) ==
    VecLengthSq(down.screen, move.screen) > NEAR_TOLERANCE * NEAR_TOLERANCE

\* pointer moved too much to be a click (line 219)
IsDrag(down, move) ==
    VecLengthSq(down.screen, move.screen) >= NEAR_TOLERANCE * NEAR_TOLERANCE

PointerMoveHandler(s, e) ==
    LET move == GetEventData(s, e)
        s1   == [s EXCEPT !.lastMove = move, !.nextUid = @ + 1]
        s2   == IF s1.spaceClickDisabled /\ s1.lastSpace.uid # 0
                   /\ MovedFar(move, s1.lastSpace)
                THEN [s1 EXCEPT !.spaceClickDisabled = FALSE]
                ELSE s1
        down == s2.lastDown
    IN  IF down.uid # 0 /\ ~IsCancelled(s2, down) /\ down.id = move.id
           /\ IsDrag(down, move)
        THEN [s2 EXCEPT !.cancelled = @ \cup {down.uid}]
        ELSE s2

----------------------------------------------------------------------------
(* _pointerup *)

\* mutant: any pointer's up ends the down
UpMatchesAnyDown(s, e) == s.lastDown.uid # 0

\* line 234: a pointer is down and it is this pointer
UpMatchesDown(s, e) == s.lastDown.uid # 0 /\ s.lastDown.id = e.id

\* mutant: half the double-click window
IsDoubleClickShort(s, up, button) ==
    /\ button = 0
    /\ s.lastUp.target.dataID # ""
    /\ VecLengthSq(up.screen, s.lastUp.screen) < NEAR_TOLERANCE * NEAR_TOLERANCE
    /\ s.lastUp.target.dataID = up.target.dataID
    /\ up.time - s.lastUp.time < DOUBLE_CLICK_WINDOW \div 2

\* line 246
IsDoubleClick(s, up, button) ==
    /\ button = 0
    /\ s.lastUp.target.dataID # ""
    /\ VecLengthSq(up.screen, s.lastUp.screen) < NEAR_TOLERANCE * NEAR_TOLERANCE
    /\ s.lastUp.target.dataID = up.target.dataID
    /\ up.time - s.lastUp.time < DOUBLE_CLICK_WINDOW

\* line 250
IsClick(down, up) ==
    \/ VecLengthSq(down.screen, up.screen) < NEAR_TOLERANCE * NEAR_TOLERANCE
    \/ /\ VecLengthSq(down.screen, up.screen) < FAR_TOLERANCE * FAR_TOLERANCE
       /\ up.time - down.time < DOUBLE_CLICK_WINDOW

\* mutant: a right click always selects first
SelectFirstAlways(s, down) == TRUE

\* line 254: the clicked target is not among the selected
SelectFirst(s, down) == ~Includes(s.selectedIDs, down.target.dataID)

\* lines 253-264: right click
RightClick(s, down, m) ==
    IF down.target.kind = "none" THEN Log(s, "TypeError")   \* down.target is null
    ELSE
      LET s1 == IF SelectFirst(s, down) THEN DoSelect(s, m) ELSE s IN
      IF down.target.service = "maproulette"
      THEN Log([s1 EXCEPT !.mapRouletteMenuOpen = TRUE], "showMapRouletteMenu")
      ELSE DoContextMenu(s1, m)

\* mutant: an accepted double click becomes lastClick but not lastUp
PointerUpDoubleNotLastUp(s, e, m) ==
    IF ~UpMatchesDown(s, e) THEN s
    ELSE
      LET down == s.lastDown
          up   == GetEventData(s, e)
          s1   == [s EXCEPT !.lastDown = NoEvent]
          s2   == [s1 EXCEPT !.lastClick = up, !.lastUp = up, !.nextUid = @ + 1]
      IN  IF IsCancelled(s, down) THEN s1
          ELSE IF IsDoubleClick(s, up, e.button)
               THEN DoDoubleClick([s1 EXCEPT !.lastClick = up, !.nextUid = @ + 1])
          ELSE IF IsClick(down, up)
               THEN IF e.button = 2 THEN RightClick(s2, down, m)
                    ELSE DoSelect(s2, m)
          ELSE s1

\* mutant: the up of a cancelled down is accepted as a click all the same
PointerUpAcceptsDrag(s, e, m) ==
    IF ~UpMatchesDown(s, e) THEN s
    ELSE LET up == GetEventData(s, e) IN
         DoSelect([s EXCEPT !.lastDown = NoEvent, !.lastClick = up, !.lastUp = up,
                            !.nextUid = @ + 1], m)

PointerUpHandler(s, e, m) ==
    IF ~UpMatchesDown(s, e) THEN s
    ELSE
      LET down == s.lastDown
          up   == GetEventData(s, e)
          s1   == [s EXCEPT !.lastDown = NoEvent]
          s2   == [s1 EXCEPT !.lastClick = up, !.lastUp = up, !.nextUid = @ + 1]
      IN  IF IsCancelled(s, down) THEN s1
          ELSE IF IsDoubleClick(s, up, e.button) THEN DoDoubleClick(s2)
          ELSE IF IsClick(down, up)
               THEN IF e.button = 2 THEN RightClick(s2, down, m)
                    ELSE DoSelect(s2, m)
          ELSE s1

(* _pointercancel: it takes no notice of which pointer was cancelled *)

PointerCancelHandler(s, e) == [s EXCEPT !.lastDown = NoEvent]

----------------------------------------------------------------------------
(* _spacebar, _keydown, _keyup *)

Spacebar(s0, m) ==
    LET s == Log(s0, "spacebar") IN
    IF s.spaceClickDisabled THEN s
    ELSE IF s.lastMove.uid = 0 THEN s
    ELSE DoSelect([s EXCEPT !.spaceClickDisabled = TRUE,
                            !.lastSpace = s.lastMove,
                            !.lastClick = s.lastMove], m)

\* comboOpen: a .combobox is open;  inText: document.activeElement is INPUT/TEXTAREA
KeydownHandler(s, key, comboOpen, inText, m) ==
    LET s1 == CancelLongPress(s) IN
    CASE key = "Escape" ->
           IF comboOpen THEN s1 ELSE Enter(s1, "browse", <<>>)
      [] key = "ContextMenu" -> DoContextMenu(s1, m)
      [] key = "Space" /\ ~s1.spaceClickDisabled ->
           IF inText THEN s1 ELSE Spacebar(s1, m)
      [] OTHER -> s1

KeyupHandler(s, key) ==
    IF s.spaceClickDisabled /\ key = "Space"
    THEN [s EXCEPT !.spaceClickDisabled = FALSE]
    ELSE s

----------------------------------------------------------------------------
(* timer callbacks *)

\* mutant: the down is not cancelled when it is accepted as a long press
DoLongPressNoCancel(s, t, m) ==
    LET s1 == [s EXCEPT !.longPressTimeout = 0] IN
    IF s1.lastDown.uid = t.down /\ ~IsCancelled(s1, s1.lastDown)
    THEN DoContextMenu(DoSelect([s1 EXCEPT !.lastClick = s1.lastDown], m), m)
    ELSE s1

\* _doLongPress(down), called by the timer t
DoLongPress(s, t, m) ==
    LET s1 == [s EXCEPT !.longPressTimeout = 0] IN
    IF s1.lastDown.uid = t.down /\ ~IsCancelled(s1, s1.lastDown)
    THEN LET s2 == [s1 EXCEPT !.lastClick = s1.lastDown,
                              !.cancelled = @ \cup {t.down}]
         IN  DoContextMenu(DoSelect(s2, m), m)
    ELSE s1

\* () => behavior.doubleClickEnabled = true
ZoomResume(s) == [s EXCEPT !.doubleClickEnabled = TRUE]

----------------------------------------------------------------------------
(* The state as one record, and back *)

Cur ==
    [enabled |-> enabled, spaceClickDisabled |-> spaceClickDisabled,
     longPressTimeout |-> longPressTimeout, showsMenu |-> showsMenu,
     showsMapRouletteMenu |-> showsMapRouletteMenu,
     lastDown |-> lastDown, lastUp |-> lastUp, lastMove |-> lastMove,
     lastSpace |-> lastSpace, lastClick |-> lastClick,
     cancelled |-> cancelled, timers |-> timers, now |-> now, nextUid |-> nextUid,
     mode |-> mode, selectedIDs |-> selectedIDs, editMenuOpen |-> editMenuOpen,
     mapRouletteMenuOpen |-> mapRouletteMenuOpen,
     doubleClickEnabled |-> doubleClickEnabled, trace |-> <<>>]

Assign(s) ==
    /\ enabled' = s.enabled
    /\ spaceClickDisabled' = s.spaceClickDisabled
    /\ longPressTimeout' = s.longPressTimeout
    /\ showsMenu' = s.showsMenu
    /\ showsMapRouletteMenu' = s.showsMapRouletteMenu
    /\ lastDown' = s.lastDown
    /\ lastUp' = s.lastUp
    /\ lastMove' = s.lastMove
    /\ lastSpace' = s.lastSpace
    /\ lastClick' = s.lastClick
    /\ cancelled' = s.cancelled
    /\ timers' = s.timers
    /\ now' = s.now
    /\ nextUid' = s.nextUid
    /\ mode' = s.mode
    /\ selectedIDs' = s.selectedIDs
    /\ editMenuOpen' = s.editMenuOpen
    /\ mapRouletteMenuOpen' = s.mapRouletteMenuOpen
    /\ doubleClickEnabled' = s.doubleClickEnabled

\* a handler's step, taken while the window holds at most MaxTimers timers
Step(s) == Cardinality(s.timers) <= MaxTimers /\ Assign(s)

----------------------------------------------------------------------------
(* Initial state: after the constructor *)

Init ==
    /\ enabled = FALSE
    /\ spaceClickDisabled = FALSE
    /\ longPressTimeout = 0
    /\ showsMenu = FALSE
    /\ showsMapRouletteMenu = FALSE
    /\ lastDown = NoEvent
    /\ lastUp = NoEvent
    /\ lastMove = NoEvent
    /\ lastSpace = NoEvent
    /\ lastClick = NoEvent
    /\ cancelled = {}
    /\ timers = {}
    /\ now = 0
    /\ nextUid = 1
    /\ mode = "browse"
    /\ selectedIDs = <<>>
    /\ editMenuOpen = FALSE
    /\ mapRouletteMenuOpen = FALSE
    /\ doubleClickEnabled = TRUE
    /\ dragged = {}
    /\ pressed = {}
    /\ keyed = {}

----------------------------------------------------------------------------
(* Actions.  The event manager delivers events only between enable() and   *)
(* disable(); timer callbacks run whenever they are due.  U is the inputs  *)
(* of the environment.                                                     *)

\* history: the move is by the tracked pointer and NEAR_TOLERANCE or more from its down
ReachesNear(e) ==
    /\ lastDown.uid # 0
    /\ lastDown.id = e.id
    /\ VecLengthSq(lastDown.screen, e.screen) >= 16

\* history: the timer's down is the tracked one and is not cancelled
StillDown(t) == lastDown.uid = t.down /\ lastDown.uid \notin cancelled

PendingLongPresses == {t.down : t \in {x \in timers : x.kind = "longpress"}}

Enable ==
    /\ Assign(EnableHandler(Cur))
    /\ UNCHANGED <<dragged, pressed, keyed>>

Disable ==
    /\ Assign(DisableHandler(Cur))
    /\ UNCHANGED <<dragged, pressed, keyed>>

PointerDown(U) ==
    /\ enabled
    /\ nextUid <= U.events
    /\ \E id \in U.pointers, h \in U.hits :
         Step(PointerDownHandler(Cur,
                    [id |-> id, screen |-> h.screen, target |-> h.target,
                     pointerType |-> PointerType(id)]))
    /\ UNCHANGED <<dragged, pressed, keyed>>

PointerMove(U) ==
    /\ enabled
    /\ nextUid <= U.events
    /\ \E id \in U.pointers, h \in U.hits :
         LET e == [id |-> id, screen |-> h.screen, target |-> h.target] IN
         /\ Assign(PointerMoveHandler(Cur, e))
         /\ dragged' = IF ReachesNear(e) THEN dragged \cup {lastDown.uid} ELSE dragged
    /\ UNCHANGED <<pressed, keyed>>

PointerUp(U) ==
    /\ enabled
    /\ nextUid <= U.events
    /\ \E id \in U.pointers, h \in U.hits, b \in U.buttons, m \in U.mods :
         Step(PointerUpHandler(Cur,
                    [id |-> id, screen |-> h.screen, target |-> h.target,
                     button |-> b], m))
    /\ UNCHANGED <<dragged, pressed, keyed>>

PointerCancel(U) ==
    /\ enabled
    /\ \E id \in U.pointers : Assign(PointerCancelHandler(Cur, [id |-> id]))
    /\ UNCHANGED <<dragged, pressed, keyed>>

Keydown(U) ==
    /\ enabled
    /\ \E key \in U.keys, comboOpen \in BOOLEAN, inText \in BOOLEAN, m \in U.mods :
         Step(KeydownHandler(Cur, key, comboOpen, inText, m))
    /\ keyed' = keyed \cup PendingLongPresses
    /\ UNCHANGED <<dragged, pressed>>

Keyup(U) ==
    /\ enabled
    /\ \E key \in U.keys : Assign(KeyupHandler(Cur, key))
    /\ UNCHANGED <<dragged, pressed, keyed>>

\* the window takes a due timer off its list and runs its callback
Pop(s, t) == [s EXCEPT !.timers = @ \ {t}]

\* the window runs a due long-press callback
LongPressFires(U) ==
    /\ \E t \in timers, m \in U.mods :
         /\ t.kind = "longpress"
         /\ t.due <= now
         /\ Step(DoLongPress(Pop(Cur, t), t, m))
         /\ pressed' = IF StillDown(t) THEN pressed \cup {t.down} ELSE pressed
    /\ UNCHANGED <<dragged, keyed>>

\* the window runs a due double-click-zoom callback
ZoomTimerFires ==
    /\ \E t \in timers :
         /\ t.kind = "zoom"
         /\ t.due <= now
         /\ Assign(ZoomResume(Pop(Cur, t)))
    /\ UNCHANGED <<dragged, pressed, keyed>>

\* time passes; a timer runs no later than the tick it is due in
Tick ==
    /\ now < MaxTicks * TickMs
    /\ \A t \in timers : t.due > now
    /\ now' = now + TickMs
    /\ UNCHANGED << enabled, spaceClickDisabled, longPressTimeout, showsMenu,
                    showsMapRouletteMenu, lastDown, lastUp, lastMove, lastSpace,
                    lastClick, cancelled, timers, nextUid, mode, selectedIDs,
                    editMenuOpen, mapRouletteMenuOpen, doubleClickEnabled,
                    dragged, pressed, keyed >>

NextIn(U) ==
    \/ Enable
    \/ Disable
    \/ PointerDown(U)
    \/ PointerMove(U)
    \/ PointerUp(U)
    \/ PointerCancel(U)
    \/ Keydown(U)
    \/ Keyup(U)
    \/ LongPressFires(U)
    \/ ZoomTimerFires
    \/ Tick

\* pointer gestures of two pointers
Next == NextIn(GestureInputs)

Spec == Init /\ [][Next]_vars

\* the keyboard, with fewer pointer events
NextKeyboard == NextIn(KeyboardInputs)

SpecKeyboard == Init /\ [][NextKeyboard]_vars

\* double clicks on targets of several kinds
NextDoubleClick == NextIn(DoubleClickInputs)

SpecDoubleClick == Init /\ [][NextDoubleClick]_vars

\* the menus of a QA task
NextMenus == NextIn(MenuInputs)

SpecMenus == Init /\ [][NextMenus]_vars

\* selections of more than one entity
NextSelection == NextIn(SelectionInputs)

SpecSelection == Init /\ [][NextSelection]_vars

----------------------------------------------------------------------------
(* Claims.  A claim about one handler is stated on every reachable state   *)
(* and every input of the handler: the handler is applied to the state     *)
(* and the claim is read off the state it returns and the calls it made.   *)

\* the lastDown slot holds a down that no move or long press has cancelled
Tracked == lastDown.uid # 0 /\ lastDown.uid \notin cancelled

Near(a, b) == VecLengthSq(a, b) < 16

\* calls of the context-menu path: _doContextMenu(), or the menu shown by
\* _pointerup itself
MenuRequests(tr) ==
    Count(tr, "doContextMenu")
    + Cardinality({i \in DOMAIN tr : /\ tr[i] = "showMapRouletteMenu"
                                     /\ (i = 1 \/ tr[i - 1] # "doContextMenu")})

\* the up `e` would be the second up of a double click
SecondUp(e) ==
    /\ e.button = 0
    /\ lastUp.uid # 0
    /\ lastUp.target.dataID # ""
    /\ lastUp.target.dataID = e.target.dataID
    /\ Near(e.screen, lastUp.screen)
    /\ now - lastUp.time < 500

\* the ups by the tracked pointer, near its down and less than 500 ms after it
QuickUps ==
    IF Tracked /\ now - lastDown.time < 500
    THEN {e \in [id : {lastDown.id}, screen : Coords, target : Targets,
                 button : Buttons] : Near(lastDown.screen, e.screen)}
    ELSE {}

\* C1 as claimed: a down and an up of the same pointer, less than
\* NEAR_TOLERANCE and less than 500 ms apart, make the up record lastClick
\* and lastUp and dispatch exactly one of the selection path and the
\* context-menu path, once.
C1_OneOfSelectOrMenu ==
    \A e \in QuickUps, m \in Modifiers :
       LET r == PointerUpHandler(Cur, e, m) IN
       /\ r.lastClick = GetEventData(Cur, e)
       /\ r.lastUp = GetEventData(Cur, e)
       /\ Count(r.trace, "doSelect") + MenuRequests(r.trace) = 1

\* C1 as amended: such an up becomes lastClick and lastUp, releases
\* lastDown, and is dispatched as one gesture: a double click alone when it
\* is the second up of a double click; otherwise the selection path once for
\* a button other than the right one; otherwise (right button on a target)
\* the context-menu path once, after the selection path exactly when the
\* down's target is not among the selected; a right click whose down has no
\* target stops before any dispatch.
C1_OneGesture ==
    \A e \in QuickUps, m \in Modifiers :
       LET r  == PointerUpHandler(Cur, e, m)
           tr == r.trace
       IN
       /\ r.lastClick = GetEventData(Cur, e)
       /\ r.lastUp = GetEventData(Cur, e)
       /\ r.lastDown = NoEvent
       /\ Count(tr, "doDoubleClick") = (IF SecondUp(e) THEN 1 ELSE 0)
       /\ SecondUp(e) => Count(tr, "doSelect") + MenuRequests(tr) = 0
       /\ ~SecondUp(e) /\ e.button # 2 =>
            Count(tr, "doSelect") = 1 /\ MenuRequests(tr) = 0
       /\ ~SecondUp(e) /\ e.button = 2 /\ lastDown.target = NoTarget =>
            tr = <<"TypeError">>
       /\ ~SecondUp(e) /\ e.button = 2 /\ lastDown.target # NoTarget =>
            /\ MenuRequests(tr) = 1
            /\ IF Includes(selectedIDs, lastDown.target.dataID)
               THEN Count(tr, "doSelect") = 0
               ELSE Count(tr, "doSelect") = 1 /\ tr[1] = "doSelect"

\* C1 witness: the entity under the pointer is selected, the pointer is
\* down on it again, and a right-button up there opens the menu without
\* selecting again.
C1_Witness ==
    /\ Tracked
    /\ Includes(selectedIDs, lastDown.target.dataID)
    /\ \E e \in QuickUps :
         /\ e.button = 2
         /\ ~SecondUp(e)
         /\ PointerUpHandler(Cur, e, NoMods).trace = <<"doContextMenu", "showEditMenu">>

----------------------------------------------------------------------------
\* every up the tracked pointer can send
UpsOf(id) == [id : {id}, screen : Coords, target : Targets, button : Buttons]

\* an up that emits no gesture: no click is accepted and nothing is dispatched
NoGesture(r) ==
    /\ r.lastClick = lastClick
    /\ r.lastUp = lastUp
    /\ r.trace = <<>>
    /\ r.mode = mode
    /\ r.selectedIDs = selectedIDs
    /\ r.editMenuOpen = editMenuOpen
    /\ r.mapRouletteMenuOpen = mapRouletteMenuOpen

\* C2: once a move of the tracked pointer has reached NEAR_TOLERANCE from
\* its down, the up of that down emits no gesture, wherever the pointer is
\* by then: lastClick and lastUp stay and nothing is dispatched.
C2_DragIsNoClick ==
    (lastDown.uid # 0 /\ lastDown.uid \in dragged) =>
       \A e \in UpsOf(lastDown.id), m \in Modifiers :
          LET r == PointerUpHandler(Cur, e, m) IN
          NoGesture(r) /\ r.lastDown = NoEvent

\* C2 witness: the pointer was dragged away, is back within tolerance of
\* its down, and its up there emits nothing.
C2_Witness ==
    /\ lastDown.uid # 0
    /\ lastDown.uid \in dragged
    /\ lastMove.id = lastDown.id
    /\ Near(lastMove.screen, lastDown.screen)
    /\ LET e == [id |-> lastDown.id, screen |-> lastMove.screen,
                 target |-> lastMove.target, button |-> 0]
       IN  NoGesture(PointerUpHandler(Cur, e, NoMods))

\* C3: an accepted primary-button up on the target of the last accepted up,
\* less than NEAR_TOLERANCE from it and less than 500 ms after it, is
\* dispatched as one double click and never as a click.
C3_SecondUpIsDoubleClick ==
    Tracked =>
       \A e \in UpsOf(lastDown.id), m \in Modifiers :
          SecondUp(e) =>
             LET r == PointerUpHandler(Cur, e, m) IN
             /\ Count(r.trace, "doDoubleClick") = 1
             /\ Count(r.trace, "doSelect") = 0
             /\ MenuRequests(r.trace) = 0
             /\ r.lastClick = GetEventData(Cur, e)
             /\ r.lastUp = GetEventData(Cur, e)

\* C3 witness: a click on the way was accepted, the pointer is down again,
\* and its up there is a double click that adds a vertex.
C3_Witness ==
    /\ Tracked
    /\ lastUp.uid # 0
    /\ lastUp.target = Way1
    /\ \E e \in UpsOf(lastDown.id) :
         /\ SecondUp(e)
         /\ PointerUpHandler(Cur, e, NoMods).trace
              = <<"doDoubleClick", "perform", "commit">>

\* C4: when the long-press timer of the tracked, uncancelled down fires, the
\* down becomes lastClick and is cancelled, and the selection path and then
\* the context-menu path are dispatched once each; the up of a down accepted
\* as a long press releases lastDown and emits no gesture.
C4_LongPress ==
    /\ \A t \in timers, m \in Modifiers :
          (t.kind = "longpress" /\ t.due <= now /\ StillDown(t)) =>
             LET r == DoLongPress(Pop(Cur, t), t, m) IN
             /\ r.lastClick = lastDown
             /\ t.down \in r.cancelled
             /\ r.lastDown = lastDown
             /\ Count(r.trace, "doSelect") = 1
             /\ Count(r.trace, "doContextMenu") = 1
             /\ r.trace[1] = "doSelect"
             /\ \E i \in DOMAIN r.trace :
                  /\ r.trace[i] = "doContextMenu"
                  /\ \A j \in DOMAIN r.trace : j > i => r.trace[j] \notin
                        {"doSelect", "doContextMenu", "doDoubleClick"}
    /\ (lastDown.uid # 0 /\ lastDown.uid \in pressed) =>
          \A e \in UpsOf(lastDown.id), m \in Modifiers :
             LET r == PointerUpHandler(Cur, e, m) IN
             NoGesture(r) /\ r.lastDown = NoEvent

\* C4 witness: the held touch was accepted as a long press, the edit menu
\* is shown, and the finger is still down.
C4_Witness ==
    /\ lastDown.uid # 0
    /\ lastDown.uid \in pressed
    /\ lastClick = lastDown
    /\ showsMenu
    /\ NoGesture(PointerUpHandler(Cur, [id |-> lastDown.id, screen |-> lastDown.screen,
                                        target |-> lastDown.target, button |-> 0],
                                  NoMods))

\* C5: disable() leaves no timer scheduled.
C5_DisableCancelsTimers ==
    enabled => DisableHandler(Cur).timers = {}

\* what an observer of the behaviour can see
Observable(s) ==
    << s.lastDown, s.lastUp, s.lastMove, s.lastSpace, s.lastClick, s.cancelled,
       s.showsMenu, s.showsMapRouletteMenu, s.spaceClickDisabled,
       s.longPressTimeout, s.mode, s.selectedIDs, s.editMenuOpen,
       s.mapRouletteMenuOpen, s.doubleClickEnabled >>

\* the callback of timer t
Callback(t, m) ==
    IF t.kind = "longpress" THEN DoLongPress(Pop(Cur, t), t, m)
    ELSE ZoomResume(Pop(Cur, t))

\* C6: a timer callback scheduled before a disable() and run after it
\* changes nothing an observer can see.
C6_StaleCallbackChangesNothing ==
    \A t \in timers, m \in Modifiers :
       (t.stale /\ t.due <= now) =>
          Observable(Callback(t, m)) = Observable(Cur)

\* C7: while a down is tracked, a pointerdown changes nothing, and none of
\* an up or a cancel of another pointer, a move, a key or a timer callback
\* takes the record out of lastDown.
C7_SingleOwnerLock ==
    lastDown.uid # 0 =>
       /\ \A e \in [id : Pointers, screen : Coords, target : Targets,
                    pointerType : {"mouse", "touch"}] :
             PointerDownHandler(Cur, e) = Cur
       /\ \A id \in Pointers \ {lastDown.id} :
             /\ \A e \in UpsOf(id), m \in Modifiers :
                   PointerUpHandler(Cur, e, m).lastDown = lastDown
             /\ PointerCancelHandler(Cur, [id |-> id]).lastDown = lastDown
       /\ \A e \in [id : Pointers, screen : Coords, target : {NoTarget}] :
             PointerMoveHandler(Cur, e).lastDown = lastDown
       /\ \A key \in Keys, b \in BOOLEAN, m \in Modifiers :
             /\ KeydownHandler(Cur, key, b, b, m).lastDown = lastDown
             /\ KeyupHandler(Cur, key).lastDown = lastDown
       /\ \A t \in timers, m \in Modifiers : Callback(t, m).lastDown = lastDown

\* C8: an up with no tracked down, or of another pointer than the tracked
\* one, changes nothing and dispatches nothing.
C8_UnmatchedUpIgnored ==
    \A id \in Pointers :
       (lastDown.uid = 0 \/ lastDown.id # id) =>
          \A e \in UpsOf(id), m \in Modifiers : PointerUpHandler(Cur, e, m) = Cur

\* C8 witness: a finger is down with its long press pending, a click was
\* accepted before, and the up of the other pointer is ignored.
C8_Witness ==
    /\ lastDown.uid # 0
    /\ lastUp.uid # 0
    /\ longPressTimeout # 0
    /\ \E id \in Pointers \ {lastDown.id} :
         PointerUpHandler(Cur, [id |-> id, screen |-> lastDown.screen,
                                target |-> lastDown.target, button |-> 0], NoMods) = Cur

\* C9: a down whose pending long press saw a keydown never produces a long
\* press: its timer, if it still fires, accepts no click and toggles no menu.
C9_KeydownCancelsLongPress ==
    \A t \in timers, m \in Modifiers :
       (t.kind = "longpress" /\ t.down \in keyed) =>
          LET r == DoLongPress(Pop(Cur, t), t, m) IN
          r.lastClick = lastClick /\ r.trace = <<>>

----------------------------------------------------------------------------
\* the move `e` exceeds FAR_TOLERANCE from the spacebar click
ExceedsFar(e) == VecLengthSq(e.screen, lastSpace.screen) > 144

MovesOf == [id : Pointers, screen : Coords, target : {NoTarget, Way1}]

\* a space keydown outside text input, suppression off, lastMove recorded:
\* one click at lastMove, and suppression on
SpaceClicks ==
    (enabled /\ ~spaceClickDisabled /\ lastMove.uid # 0) =>
       \A comboOpen \in BOOLEAN, m \in Modifiers :
          LET r == KeydownHandler(Cur, "Space", comboOpen, FALSE, m) IN
          /\ r.lastClick = lastMove
          /\ r.lastSpace = lastMove
          /\ Count(r.trace, "doSelect") = 1
          /\ r.spaceClickDisabled

\* while suppression is on, a space keydown synthesizes no click
SpaceRepeats ==
    spaceClickDisabled =>
       \A comboOpen \in BOOLEAN, inText \in BOOLEAN, m \in Modifiers :
          LET r == KeydownHandler(Cur, "Space", comboOpen, inText, m) IN
          /\ r.trace = <<>>
          /\ r.lastClick = lastClick
          /\ r.lastSpace = lastSpace
          /\ r.spaceClickDisabled

\* the space keyup and the move beyond FAR_TOLERANCE lift suppression
SpaceLifts ==
    spaceClickDisabled =>
       /\ ~KeyupHandler(Cur, "Space").spaceClickDisabled
       /\ \A e \in MovesOf :
             ExceedsFar(e) => ~PointerMoveHandler(Cur, e).spaceClickDisabled

\* no event handler and no timer callback but those two lifts suppression
SpaceKept ==
    spaceClickDisabled =>
       /\ \A e \in MovesOf :
             ~ExceedsFar(e) => PointerMoveHandler(Cur, e).spaceClickDisabled
       /\ \A key \in Keys \ {"Space"} : KeyupHandler(Cur, key).spaceClickDisabled
       /\ \A key \in Keys, b \in BOOLEAN, m \in Modifiers :
             KeydownHandler(Cur, key, b, b, m).spaceClickDisabled
       /\ \A e \in [id : Pointers, screen : Coords, target : {NoTarget, Way1},
                    pointerType : {"mouse", "touch"}] :
             PointerDownHandler(Cur, e).spaceClickDisabled
       /\ \A id \in Pointers :
             /\ \A e \in UpsOf(id), m \in Modifiers :
                   PointerUpHandler(Cur, e, m).spaceClickDisabled
             /\ PointerCancelHandler(Cur, [id |-> id]).spaceClickDisabled
       /\ \A t \in timers, m \in Modifiers : Callback(t, m).spaceClickDisabled
       /\ EnableHandler(Cur).spaceClickDisabled

\* C10 as claimed: a space keydown synthesizes one click at lastMove and
\* turns suppression on, a repeated space keydown synthesizes none, and
\* nothing but a space keyup or a move beyond FAR_TOLERANCE lifts suppression.
C10_OnlyKeyupOrFarMoveLifts ==
    /\ SpaceClicks
    /\ SpaceRepeats
    /\ SpaceLifts
    /\ SpaceKept
    /\ spaceClickDisabled => DisableHandler(Cur).spaceClickDisabled

\* C10 as amended: a space keydown synthesizes one click at lastMove and
\* turns suppression on, a repeated space keydown synthesizes none, and
\* suppression is lifted only by a space keyup, by a move beyond
\* FAR_TOLERANCE from lastSpace, or by disable().
C10_SpaceClick ==
    /\ SpaceClicks
    /\ SpaceRepeats
    /\ SpaceLifts
    /\ SpaceKept
    /\ spaceClickDisabled => ~DisableHandler(Cur).spaceClickDisabled

\* C10 witness: the spacebar clicked the way under the pointer, the key is
\* still held, and a move of exactly FAR_TOLERANCE does not lift suppression.
C10_Witness ==
    /\ spaceClickDisabled
    /\ lastMove.target = Way1
    /\ lastClick = lastMove
    /\ lastSpace = lastMove
    /\ mode = "select-osm"
    /\ selectedIDs = <<"w1">>
    /\ PointerMoveHandler(Cur, [id |-> 1, screen |-> <<12, 0>>,
                                target |-> NoTarget]).spaceClickDisabled
    /\ ~PointerMoveHandler(Cur, [id |-> 1, screen |-> <<13, 0>>,
                                 target |-> NoTarget]).spaceClickDisabled

----------------------------------------------------------------------------
\* the up `e` of the tracked pointer is recognized as a click or double click
Accepted(e) ==
    /\ Tracked
    /\ e.id = lastDown.id
    /\ \/ SecondUp(e)
       \/ Near(lastDown.screen, e.screen)
       \/ (VecLengthSq(lastDown.screen, e.screen) < 144 /\ now - lastDown.time < 500)

\* lastClick is empty, or the record of an accepted click or double click
\* (which is lastUp), of a space click (lastSpace), or of a long press
LastClickIsAGesture ==
    lastClick.uid # 0 =>
       lastClick = lastUp \/ lastClick = lastSpace \/ lastClick.uid \in pressed

\* an up makes its record lastClick exactly when it is accepted, and leaves
\* lastClick alone when it is a dragged or an ignored one
UpsSetLastClick ==
    \A id \in Pointers :
       \A e \in [id : {id}, screen : Coords, target : {NoTarget, Way1, Task1},
                  button : Buttons], m \in Modifiers :
          PointerUpHandler(Cur, e, m).lastClick
             = (IF Accepted(e) THEN GetEventData(Cur, e) ELSE lastClick)

\* a long-press callback makes its down lastClick when it accepts it, and
\* no other callback, and no move, cancel or keyup, writes lastClick
OthersSetLastClick ==
    /\ \A t \in timers, m \in Modifiers :
          Callback(t, m).lastClick
             = (IF t.kind = "longpress" /\ StillDown(t) THEN lastDown ELSE lastClick)
    /\ \A e \in MovesOf : PointerMoveHandler(Cur, e).lastClick = lastClick
    /\ \A id \in Pointers : PointerCancelHandler(Cur, [id |-> id]).lastClick = lastClick
    /\ \A key \in Keys : KeyupHandler(Cur, key).lastClick = lastClick
    /\ \A key \in Keys, b \in BOOLEAN, c \in BOOLEAN, m \in Modifiers :
          LET r == KeydownHandler(Cur, key, b, c, m) IN
          r.lastClick = lastClick \/ (key = "Space" /\ r.lastClick = lastMove)

\* C11 as claimed: lastClick is the record of the latest accepted click,
\* double click, space click or long press, never the record of a dragged
\* or ignored up, and its record never carries isCancelled = true.
C11_LastClickNeverCancelled ==
    /\ LastClickIsAGesture
    /\ UpsSetLastClick
    /\ OthersSetLastClick
    /\ lastClick.uid \notin cancelled

\* C11 as amended: lastClick is empty (after enable(), disable() and every
\* pointerdown) or the record of the latest accepted click, double click,
\* space click or long press, never the record of a dragged or ignored up;
\* its record carries isCancelled = true exactly when it is a down accepted
\* as a long press.
C11_LastClickAccepted ==
    /\ LastClickIsAGesture
    /\ UpsSetLastClick
    /\ OthersSetLastClick
    /\ lastClick.uid \in cancelled <=> (lastClick.uid # 0 /\ lastClick.uid \in pressed)
    /\ lastDown.uid # 0 =>
          \A e \in [id : Pointers, screen : Coords, target : {NoTarget, Way1},
                     pointerType : {"mouse", "touch"}] :
             PointerDownHandler(Cur, e).lastClick = lastClick
    /\ lastDown.uid = 0 =>
          \A e \in [id : Pointers, screen : Coords, target : {NoTarget, Way1},
                     pointerType : {"mouse", "touch"}] :
             PointerDownHandler(Cur, e).lastClick = NoEvent

\* C11 witness: a click was accepted, then a finger went down and was held
\* into a long press: lastClick is that down, cancelled, and not lastUp.
C11_Witness ==
    /\ lastClick.uid # 0
    /\ lastClick = lastDown
    /\ lastClick.uid \in pressed
    /\ lastClick.uid \in cancelled
    /\ lastUp.uid # 0
    /\ lastUp # lastClick

----------------------------------------------------------------------------
\* the selection neither names the midpoint nor differs from what the same
\* click on the parent way gives
AsOnParent(r, w) ==
    /\ ~Includes(r.selectedIDs, Mid1.dataID)
    /\ r.selectedIDs = w.selectedIDs
    /\ r.mode = w.mode
    /\ r.trace = w.trace

\* what a click on the entity `id` selects: it alone, or with Shift the
\* selection with it toggled
Toggled(id, m) ==
    IF ~IsMultiselect(m) THEN <<id>>
    ELSE IF Includes(selectedIDs, id) THEN Filter(selectedIDs, id)
    ELSE Append(selectedIDs, id)

\* the modifiers that leave the target to the click
Snapping == {m \in Modifiers : ~DisableSnap(m)}

\* C12: an accepted click on a midpoint, by pointer or by spacebar, with no
\* snap-disabling modifier, selects as the same click on the parent way
\* does (where neither is the second up of a double click) and never the
\* midpoint's identifier: without an open menu it
\* enters select-osm once, plainly with the parent way alone, with Shift
\* with the parent way toggled in the selection.
C12_MidpointSelectsParent ==
    /\ \A e \in QuickUps, m \in Snapping :
          (e.target = Mid1 /\ e.button = 0 /\ ~SecondUp(e)
                            /\ ~SecondUp([e EXCEPT !.target = Way1])) =>
             LET r == PointerUpHandler(Cur, e, m)
                 w == PointerUpHandler(Cur, [e EXCEPT !.target = Way1], m)
             IN  /\ AsOnParent(r, w)
                 /\ ~showsMenu =>
                       /\ Count(r.trace, "enter:select-osm") = 1
                       /\ r.mode = "select-osm"
                       /\ r.selectedIDs = Toggled(Mid1.parent, m)
    /\ (enabled /\ ~spaceClickDisabled /\ lastMove.target = Mid1) =>
          \A m \in Snapping :
             LET onWay == [Cur EXCEPT !.lastMove = [lastMove EXCEPT !.target = Way1]]
                 r == KeydownHandler(Cur, "Space", FALSE, FALSE, m)
                 w == KeydownHandler(onWay, "Space", FALSE, FALSE, m)
             IN  /\ AsOnParent(r, w)
                 /\ r.lastClick.target = Mid1
                 /\ ~showsMenu =>
                       /\ Count(r.trace, "enter:select-osm") = 1
                       /\ r.mode = "select-osm"
                       /\ r.selectedIDs = Toggled(Mid1.parent, m)

\* C12 witness: the node and the way are selected, the pointer rests on
\* the way's midpoint, and a Shift spacebar click there takes the way out
\* of the selection while a plain one selects the way alone.
C12_Witness ==
    /\ enabled
    /\ ~spaceClickDisabled
    /\ ~showsMenu
    /\ lastMove.target = Mid1
    /\ selectedIDs = <<"n1", "w1">>
    /\ KeydownHandler(Cur, "Space", FALSE, FALSE, ShiftKey).selectedIDs = <<"n1">>
    /\ KeydownHandler(Cur, "Space", FALSE, FALSE, NoMods).selectedIDs = <<"w1">>

----------------------------------------------------------------------------
\* the mode transitions a handler issued
Enters(tr) == Cardinality({i \in DOMAIN tr : tr[i] \in
                  {"enter:select-osm", "enter:select", "enter:browse"}})

\* the handler re-entered select-osm, once, with the selection `ids`
Reentered(r, ids) ==
    /\ Enters(r.trace) = 1
    /\ Count(r.trace, "enter:select-osm") = 1
    /\ r.mode = "select-osm"
    /\ r.selectedIDs = ids

\* the handler issued no mode transition
NoTransition(r) ==
    /\ Enters(r.trace) = 0
    /\ r.mode = mode
    /\ r.selectedIDs = selectedIDs

\* the result of a Shift click on the entity `id`, `menu` being _showsMenu
\* when the click is dispatched
ShiftClicked(r, id, menu) ==
    IF Includes(selectedIDs, id)
    THEN IF menu THEN NoTransition(r) ELSE Reentered(r, Filter(selectedIDs, id))
    ELSE Reentered(r, Append(selectedIDs, id))

Editable == {Way1, Node1}

\* _showsMenu when a spacebar click is dispatched: the keydown first
\* cancels a pending long press, which resets the flag
MenuAtSpaceClick == showsMenu /\ longPressTimeout = 0

\* C13: with Shift held, an accepted click (by pointer or by spacebar) on an
\* editable entity of the selection re-enters select-osm without it when
\* _showsMenu is false and issues no mode transition when _showsMenu is
\* true; on an entity not in the selection it re-enters with it appended.
C13_ShiftClickToggles ==
    /\ \A e \in QuickUps :
          (e.target \in Editable /\ e.button # 2 /\ ~SecondUp(e)) =>
             ShiftClicked(PointerUpHandler(Cur, e, ShiftKey), e.target.dataID, showsMenu)
    /\ (enabled /\ ~spaceClickDisabled /\ lastMove.target \in Editable) =>
          \A comboOpen \in BOOLEAN :
             ShiftClicked(KeydownHandler(Cur, "Space", comboOpen, FALSE, ShiftKey),
                          lastMove.target.dataID, MenuAtSpaceClick)

\* C13 witness: the way and the node are selected, the edit menu is open on
\* the node, and a Shift spacebar click on the node leaves the selection.
C13_Witness ==
    /\ enabled
    /\ ~spaceClickDisabled
    /\ showsMenu
    /\ editMenuOpen
    /\ selectedIDs = <<"w1", "n1">>
    /\ lastMove.target = Node1
    /\ NoTransition(KeydownHandler(Cur, "Space", FALSE, FALSE, ShiftKey))

----------------------------------------------------------------------------
\* C14: each slot takes the record of the next event of its kind: lastMove
\* every pointermove, lastDown the pointerdown that finds no pointer down,
\* lastSpace the move a spacebar click is synthesized at, and lastUp every
\* pointerup of the tracked pointer, accepted as a click or not.
C14_SlotsOverwritten ==
    /\ \A e \in MovesOf : PointerMoveHandler(Cur, e).lastMove = GetEventData(Cur, e)
    /\ lastDown.uid = 0 =>
          \A e \in [id : Pointers, screen : Coords, target : {NoTarget, Way1},
                     pointerType : {"mouse", "touch"}] :
             PointerDownHandler(Cur, e).lastDown = GetEventData(Cur, e)
    /\ (enabled /\ ~spaceClickDisabled /\ lastMove.uid # 0) =>
          \A m \in Modifiers :
             KeydownHandler(Cur, "Space", FALSE, FALSE, m).lastSpace = lastMove
    /\ lastDown.uid # 0 =>
          \A e \in UpsOf(lastDown.id), m \in Modifiers :
             PointerUpHandler(Cur, e, m).lastUp = GetEventData(Cur, e)

----------------------------------------------------------------------------
\* the modifiers of a plain click: the target is kept and Shift is not held
Plain == {m \in Snapping : ~IsMultiselect(m)}

\* the menu is shown over a selection of several entities, `id` among them
MenuOverSeveral(id, menu) ==
    menu /\ Len(selectedIDs) > 1 /\ Includes(selectedIDs, id)

\* the result of a plain click on the entity `id`
PlainClicked(r, id, menu) ==
    IF MenuOverSeveral(id, menu) THEN NoTransition(r) ELSE Reentered(r, <<id>>)

\* C15 as claimed: a plain accepted click (by pointer, by spacebar or by
\* long press) on an editable entity enters select-osm with that entity
\* alone, in every reachable state.
C15_AlwaysReenters ==
    /\ \A e \in QuickUps, m \in Plain :
          (e.target \in Editable /\ e.button # 2 /\ ~SecondUp(e)) =>
             Reentered(PointerUpHandler(Cur, e, m), <<e.target.dataID>>)
    /\ (enabled /\ ~spaceClickDisabled /\ lastMove.target \in Editable) =>
          \A m \in Plain :
             Reentered(KeydownHandler(Cur, "Space", FALSE, FALSE, m),
                       <<lastMove.target.dataID>>)
    /\ \A t \in timers, m \in Plain :
          (enabled /\ t.kind = "longpress" /\ StillDown(t)
                   /\ lastDown.target \in Editable) =>
             Reentered(DoLongPress(Pop(Cur, t), t, m), <<lastDown.target.dataID>>)

\* C15 as amended: such a click enters select-osm with that entity alone,
\* unless _showsMenu is true and the entity is one of several selected:
\* then no mode transition is issued and the selection stays.
C15_ReentersUnlessMenuOverSeveral ==
    /\ \A e \in QuickUps, m \in Plain :
          (e.target \in Editable /\ e.button # 2 /\ ~SecondUp(e)) =>
             PlainClicked(PointerUpHandler(Cur, e, m), e.target.dataID, showsMenu)
    /\ (enabled /\ ~spaceClickDisabled /\ lastMove.target \in Editable) =>
          \A m \in Plain :
             PlainClicked(KeydownHandler(Cur, "Space", FALSE, FALSE, m),
                          lastMove.target.dataID, MenuAtSpaceClick)
    /\ \A t \in timers, m \in Plain :
          (enabled /\ t.kind = "longpress" /\ StillDown(t)
                   /\ lastDown.target \in Editable) =>
             PlainClicked(DoLongPress(Pop(Cur, t), t, m), lastDown.target.dataID,
                          showsMenu)

\* C15 witness: the way and the node are selected, the edit menu is open,
\* and a plain spacebar click on the node issues no transition, while the
\* same click with the menu closed would select the node alone.
C15_Witness ==
    /\ enabled
    /\ ~spaceClickDisabled
    /\ MenuOverSeveral("n1", MenuAtSpaceClick)
    /\ lastMove.target = Node1
    /\ NoTransition(KeydownHandler(Cur, "Space", FALSE, FALSE, NoMods))
    /\ Reentered(KeydownHandler([Cur EXCEPT !.showsMenu = FALSE], "Space", FALSE,
                                FALSE, NoMods), <<"n1">>)

----------------------------------------------------------------------------
\* a click on a real target was accepted less than 500 ms ago: its
\* re-enable timer, set for 500 ms after it, is not due yet
ClickedWithinWindow ==
    \E t \in timers : t.kind = "zoom" /\ ~t.stale /\ t.due > now

\* C16: an accepted click on a real target disables the map's double-click
\* zoom, and the zoom stays disabled for the whole 500 ms after every such
\* click, also when clicks follow each other in less than 500 ms.
C16_ZoomPausedForWindow ==
    /\ (enabled /\ ~spaceClickDisabled /\ lastMove.target # NoTarget) =>
          \A m \in Snapping :
             ~KeydownHandler(Cur, "Space", FALSE, FALSE, m).doubleClickEnabled
    /\ \A e \in QuickUps, m \in Snapping :
          (e.target # NoTarget /\ e.button = 0 /\ ~SecondUp(e)) =>
             ~PointerUpHandler(Cur, e, m).doubleClickEnabled
    /\ ClickedWithinWindow => ~doubleClickEnabled

----------------------------------------------------------------------------
\* the request toggled the MapRoulette menu and the flag with it
ToggledTaskMenu(r) ==
    /\ r.mapRouletteMenuOpen = ~mapRouletteMenuOpen
    /\ r.showsMapRouletteMenu = r.mapRouletteMenuOpen
    /\ Count(r.trace, "showMapRouletteMenu") + Count(r.trace, "closeMapRouletteMenu") = 1

\* C17: a context-menu request (right-button click, menu key, long press)
\* on a MapRoulette task toggles the task menu, and _showsMapRouletteMenu is
\* true exactly when the last task-menu operation of the behaviour was
\* showMapRouletteMenu.
C17_TaskMenuFlagInStep ==
    /\ showsMapRouletteMenu <=> mapRouletteMenuOpen
    /\ \A e \in QuickUps, m \in Snapping :
          (e.button = 2 /\ e.target = Task1 /\ lastDown.target = Task1) =>
             ToggledTaskMenu(PointerUpHandler(Cur, e, m))
    /\ (enabled /\ lastClick.target = Task1) =>
          \A m \in Snapping :
             ToggledTaskMenu(KeydownHandler(Cur, "ContextMenu", FALSE, FALSE, m))
    /\ \A t \in timers, m \in Snapping :
          (enabled /\ t.kind = "longpress" /\ StillDown(t) /\ lastDown.target = Task1) =>
             ToggledTaskMenu(DoLongPress(Pop(Cur, t), t, m))

----------------------------------------------------------------------------
\* two menu-key requests in a row, nothing in between
TwoRequests(m) ==
    LET r1 == KeydownHandler(Cur, "ContextMenu", FALSE, FALSE, m)
        r2 == KeydownHandler(r1, "ContextMenu", FALSE, FALSE, m)
    IN  /\ r1.showsMenu /\ r1.editMenuOpen
        /\ ~r2.showsMenu /\ ~r2.editMenuOpen
        /\ r2.trace = <<"doContextMenu", "showEditMenu", "doContextMenu", "closeEditMenu">>

\* C18: _showsMenu is true exactly when the last edit-menu operation of the
\* behaviour was showEditMenu, so the menu is closed wherever the flag is
\* reset; and two context-menu requests in a row on a target that is no
\* MapRoulette task open the edit menu and close it again.
C18_EditMenuFlagInStep ==
    /\ showsMenu <=> editMenuOpen
    /\ (enabled /\ lastClick.uid # 0 /\ lastClick.target # Task1 /\ ~showsMenu) =>
          \A m \in Modifiers : TwoRequests(m)

----------------------------------------------------------------------------
\* C19: a recognized right-button click reaches the context-menu path, once,
\* after the selection path when the clicked target is not selected, for
\* every target of the down record; on no target at all the handler
\* completes without a fault and toggles the edit menu.
C19_RightClickReachesMenu ==
    \A e \in QuickUps, m \in Modifiers :
       e.button = 2 =>
          LET r == PointerUpHandler(Cur, e, m) IN
          /\ Count(r.trace, "TypeError") = 0
          /\ MenuRequests(r.trace) = 1
          /\ ~Includes(selectedIDs, lastDown.target.dataID) => r.trace[1] = "doSelect"
          /\ lastDown.target = NoTarget =>
                r.showsMenu = ~showsMenu /\ r.editMenuOpen = ~editMenuOpen

----------------------------------------------------------------------------
\* C20: an accepted double click on an OSM way or on a midpoint performs one
\* edit (perform, then commit), on a target of any other kind none; and a
\* double click issues no mode transition, so mode and selection stay.
C20_DoubleClickInserts ==
    Tracked =>
       \A e \in UpsOf(lastDown.id), m \in Modifiers :
          SecondUp(e) =>
             LET r == PointerUpHandler(Cur, e, m) IN
             /\ IF e.target.kind \in {"way", "midpoint"}
                THEN r.trace = <<"doDoubleClick", "perform", "commit">>
                ELSE r.trace = <<"doDoubleClick">>
             /\ NoTransition(r)

\* C20 witness: a click on the midpoint selected its way, the finger is
\* down again, and its up is a double click that adds the vertex and
\* leaves the way selected.
C20_Witness ==
    /\ Tracked
    /\ lastUp.target = Mid1
    /\ selectedIDs = <<"w1">>
    /\ \E e \in UpsOf(lastDown.id) :
         /\ SecondUp(e)
         /\ LET r == PointerUpHandler(Cur, e, NoMods) IN
            /\ Count(r.trace, "perform") = 1
            /\ Count(r.trace, "commit") = 1
            /\ r.selectedIDs = <<"w1">>

----------------------------------------------------------------------------
\* the long-press timers that are scheduled and neither fired nor cleared
LiveLongPresses == {t \in timers : t.kind = "longpress"}

\* C21: at most one long-press timer is live, and _longPressTimeout holds
\* the handle of the live one, so that _cancelLongPress clears it.
C21_OneLiveLongPressTimer ==
    /\ Cardinality(LiveLongPresses) <= 1
    /\ \A t \in LiveLongPresses :
          /\ longPressTimeout = t.h
          /\ CancelLongPress(Cur).timers = timers \ {t}

----------------------------------------------------------------------------
\* the state `dt` ms later, no timer callback having changed it, with an
\* empty list of calls for the next handler
Later(s, dt) == [s EXCEPT !.now = @ + dt, !.trace = <<>>]

\* the next primary-button down/up pair of pointer `id` at `c` on `T`,
\* `dt` ms after the state s
NextPair(s, id, c, T, dt, m) ==
    LET d == PointerDownHandler(Later(s, dt),
                 [id |-> id, screen |-> c, target |-> T,
                  pointerType |-> PointerType(id)])
    IN  PointerUpHandler(Later(d, 0),
                 [id |-> id, screen |-> c, target |-> T, button |-> 0], m)

\* the up was dispatched as a double click and as nothing else: one vertex
\* is added on a way or midpoint, nothing is selected
DoubleClicked(r, T) ==
    /\ r.trace = (IF T.kind \in {"way", "midpoint"}
                  THEN <<"doDoubleClick", "perform", "commit">>
                  ELSE <<"doDoubleClick">>)
    /\ r.lastUp = r.lastClick
    /\ r.lastUp.uid # 0
    /\ r.lastDown = NoEvent

\* the up was dispatched as a single click
SingleClicked(r) ==
    /\ Count(r.trace, "doSelect") = 1
    /\ Count(r.trace, "doDoubleClick") = 0
    /\ Count(r.trace, "perform") = 0

Gaps == {0, TickMs}

\* C22: in a run of primary-button down/up pairs on one identified target,
\* each up less than NEAR_TOLERANCE and less than 500 ms from the one
\* before, the first up is a single click and the second and the third are
\* double clicks each (two vertices on a way), because an accepted double
\* click is lastUp for the next up.
C22_RunOfDoubleClicks ==
    Tracked =>
       \A T \in {Way1, Node1}, m \in {NoMods, ShiftKey} :
          LET id == lastDown.id
              e1 == [id |-> id, screen |-> lastDown.screen, target |-> T, button |-> 0]
              r1 == PointerUpHandler(Cur, e1, m)
          IN  ~SecondUp(e1) =>
                /\ SingleClicked(r1)
                /\ \A c2 \in Coords, g2 \in Gaps :
                      Near(c2, e1.screen) =>
                         LET r2 == NextPair(r1, id, c2, T, g2, m) IN
                         /\ DoubleClicked(r2, T)
                         /\ \A c3 \in Coords, g3 \in Gaps :
                               Near(c3, c2) =>
                                  DoubleClicked(NextPair(r2, id, c3, T, g3, m), T)

\* C22 witness: the pointer is down on the way for the first click of a
\* run; ups at 0, 3 and 4 units, 250 ms apart, give a click and two double
\* clicks, the third up being 500 ms after the first and not near it.
C22_Witness ==
    /\ Tracked
    /\ lastUp.uid = 0
    /\ lastDown.target = Way1
    /\ lastDown.screen = <<0, 0>>
    /\ LET id == lastDown.id
           r1 == PointerUpHandler(Cur, [id |-> id, screen |-> <<0, 0>>,
                                        target |-> Way1, button |-> 0], NoMods)
           r2 == NextPair(r1, id, <<3, 0>>, Way1, TickMs, NoMods)
           r3 == NextPair(r2, id, <<4, 0>>, Way1, TickMs, NoMods)
       IN  /\ SingleClicked(r1)
           /\ DoubleClicked(r2, Way1)
           /\ DoubleClicked(r3, Way1)
           /\ r3.lastUp.time - r1.lastUp.time = DOUBLE_CLICK_WINDOW
           /\ ~Near(r3.lastUp.screen, r1.lastUp.screen)

====
